---- MODULE Spec2Model ----
(***************************************************************************)
(* Voice-request lifecycle and speech-to-text orchestration of the         *)
(* claude-hands-free voice server (src/server.py).                         *)
(*                                                                         *)
(* The server is one asyncio event loop: a handler runs without            *)
(* interruption from one suspension point (an await that really blocks)    *)
(* to the next, so every action below is the code between two              *)
(* suspension points of one handler.  Time is abstract: a deadline         *)
(* (asyncio.timeout) is an action that may fire at any suspension point    *)
(* inside its scope.  The speech-to-text backend is the environment: it    *)
(* may accept or refuse the connection, answer with any event, close the   *)
(* stream, fail, or stay silent.                                           *)
(*                                                                         *)
(* Environment taken as given: request tokens never collide, writing the   *)
(* upload to the local temporary directory succeeds, print() does not      *)
(* raise, closing the backend connection completes, and no handler is      *)
(* cancelled from outside.  The faults modelled are those of the backend   *)
(* (connection refused or dropped, stream ended or broken, silence) and    *)
(* the two deadlines.                                                      *)
(*                                                                         *)
(* Two further components have their own next-state relations over their   *)
(* own variables: the polling client with its tool wrapper (SpecPoller,    *)
(* mcp-server/src/claude_voice_mcp) and the conversation session           *)
(* (SpecSession, ClaudeSession in src/server.py).  SpecRead follows one    *)
(* call of transcribe_audio against a backend that sends any number of     *)
(* events, and SpecVoiceText does the same for the /voice-text handler.    *)
(* SpecPrompt applies the one-shot invocation to the histories a session   *)
(* can load, SpecChannel follows the interactive exchange line by line,    *)
(* SpecFault adds a temporary directory that can fail, and SpecSynth       *)
(* follows one call of synthesize_speech against                           *)
(* the text-to-speech backend.                                             *)
(***************************************************************************)
EXTENDS Naturals, Integers, Sequences, FiniteSets, TLC

VARIABLES
    voice_requests,       \* server.py:79   request_id -> request record
    voice_requests_lock,  \* server.py:80   handler inside the registry mutex, or NoTask
    whisper_lock,         \* server.py:76   handler owning the transcription lock, or NoTask
    whisper_waiters,      \* server.py:76   FIFO of handlers suspended in whisper_lock.acquire()
    handler,              \* in-flight handlers that suspend: their position and locals
    response,             \* HTTP response produced by the step just taken
    printed,              \* diagnostic line of transcribe_audio printed by the step just taken
    clock,                \* client.py:36  asyncio.get_event_loop().time(), in poll intervals
    remote,               \* the voice request of the current call, as the voice server holds it
    poller,               \* client.py:11  position and locals of get_voice_input
    tool_result,          \* mcp server.py:52  what the last call_tool returned
    process,              \* server.py:188  self.process of the session
    conversation_history, \* server.py:190  self.conversation_history
    history_file,         \* server.py:189  content of the session's history file
    children,             \* server.py:207  subprocesses started by the session so far
    live,                 \* those of them that are running
    sent,                 \* outcome of the session call just made
    exchanges,            \* (prompt, reply) of every send_message that returned a reply
    channel,              \* server.py:207  stdout pipe of the interactive subprocess, line by line
    synth                 \* server.py:157  position and locals of synthesize_speech

serverVars == <<voice_requests, voice_requests_lock, whisper_lock, whisper_waiters,
                handler, response, printed>>
pollerVars == <<clock, remote, poller, tool_result>>
sessionVars == <<process, children, live, conversation_history, history_file,
                 sent, exchanges, channel>>
synthVars == <<synth>>

vars == <<serverVars, pollerVars, sessionVars, synthVars>>

----------------------------------------------------------------------------
(* Bounds of the model *)

MaxRequests == 2     \* request ids that can be allocated
MaxTasks == 2        \* handlers that can be suspended at the same time
MaxLen == 2          \* longest text carried by a transcript event
MaxNoise == 2        \* non-transcript events the backend sends in one session
                     \* (below EventCeiling; read_event_stream has no such limit)
MaxClock == 4        \* poll intervals the clock of the polling client runs for
MaxTimeout == 2      \* largest timeout passed to get_voice_input, in poll intervals
MaxTurns == 4        \* send_message is called while the history is shorter than this
MaxSpawns == 2       \* interactive subprocesses a session can start
MaxEvents == 4       \* events the text-to-speech backend sends in one call
MaxHistory == 8      \* turns of a history loaded from the history file
MaxLines == 2        \* lines of an answer of the interactive subprocess before its prompt line
MaxExchanges == 2    \* prompts written to one interactive subprocess

(* Program constants *)

EventCeiling == 100  \* server.py:137  if event_count > 100: break
PollInterval == 1    \* client.py:54   await asyncio.sleep(1)
ContextTurns == 6    \* server.py:256  self.conversation_history[-6:]

RequestIds == 1..MaxRequests
Tasks == 1..MaxTasks
NoTask == 0
NoRequest == 0
Languages == {"fr", "en"}
DefaultLanguage == "fr"
Chars == {" ", "a"}

(* Optional values: Python None is the empty tuple, a value v is <<v>>. *)
None == << >>
Some(v) == <<v>>

(* Texts a transcript event can carry (event.data.get("text", "")). *)
Texts == UNION {[1..n -> Chars] : n \in 0..MaxLen}

----------------------------------------------------------------------------
(* str.strip(): drop leading and trailing whitespace. *)

RECURSIVE LStrip(_)
LStrip(s) == IF s = << >> THEN s
             ELSE IF Head(s) = " " THEN LStrip(Tail(s)) ELSE s

RECURSIVE RStrip(_)
RStrip(s) == IF s = << >> THEN s
             ELSE IF s[Len(s)] = " " THEN RStrip(SubSeq(s, 1, Len(s) - 1)) ELSE s

Strip(s) == RStrip(LStrip(s))

----------------------------------------------------------------------------
(* Records *)

(* Fault variant of NewRequest: the transcript starts as "" instead of None. *)
NewRequestEmptyTranscript(language) ==
    [status |-> "pending", transcript |-> Some(<< >>), language |-> language,
     error |-> None]

NewRequest(language) ==
    [status |-> "pending", transcript |-> None, language |-> language, error |-> None]

IdleHandler ==
    [pc |-> "idle", endpoint |-> "none", request_id |-> NoRequest,
     language |-> DefaultLanguage, event_count |-> 0, connected |-> FALSE]

NoResponse ==
    [op |-> "none", request_id |-> NoRequest, code |-> 0, status |-> "",
     transcript |-> None, error |-> None, requests |-> {}]

Reply(op, id, code, status, transcript, error, requests) ==
    [op |-> op, request_id |-> id, code |-> code, status |-> status,
     transcript |-> transcript, error |-> error, requests |-> requests]

Rejection(op, id, code) == Reply(op, id, code, "", None, None, {})

(* A printed line of transcribe_audio: which print statement, the text it  *)
(* interpolates ("Got transcript: '{transcript}'"), and the value of        *)
(* event_count at that point ("... after {event_count} events").            *)
NoLine == [line |-> "", text |-> << >>, events |-> 0]
LogLine(line, text, events) == [line |-> line, text |-> text, events |-> events]

(* Positions of a handler inside transcribe_audio. *)
WaitLock == "wait_lock"
InBackendSection == {"connect", "send", "read"}
InTranscribe == {WaitLock} \cup InBackendSection

(* The polling client before its first call (VoiceClient, client.py). *)
NoOutcome == [kind |-> "none", text |-> << >>]

IdlePoller ==
    [pc |-> "idle", language |-> DefaultLanguage, timeout |-> 0, start_time |-> 0,
     wake_at |-> 0, creates |-> 0, exchange |-> "none", seen |-> "",
     outcome |-> NoOutcome]

(* No request has been created for the current call. *)
NoRemote == [status |-> "", transcript |-> None, language |-> DefaultLanguage,
             completed_at |-> 0]

NoToolResult ==
    [returned |-> FALSE, name |-> "", raised |-> FALSE, content |-> << >>]

(* synthesize_speech before it is called. *)
IdleSynth ==
    [pc |-> "idle", audio_chunks |-> << >>, stream |-> << >>, raised |-> FALSE,
     wav |-> None]

(* A session just constructed on an empty sessions directory. *)
NoProcess == "none"

(* The stdout pipe of the interactive subprocess before anything is        *)
(* written to it: the lines not yet read, the number of prompts written to *)
(* stdin, and response_lines of the last exchange.                         *)
IdleChannel == [stdout |-> << >>, turn |-> 0, response_lines |-> << >>]
NoSent ==
    [op |-> "none", prompt |-> "", raised |-> FALSE, returned |-> None,
     variant |-> "none", interactive |-> "none", oneshot |-> "unused",
     full_prompt |-> << >>]

Init ==
    /\ clock = 0
    /\ remote = NoRemote
    /\ poller = IdlePoller
    /\ tool_result = NoToolResult
    /\ process = NoProcess
    /\ children = 0
    /\ live = {}
    /\ synth = IdleSynth
    /\ conversation_history = << >>
    /\ history_file = << >>
    /\ sent = NoSent
    /\ exchanges = << >>
    /\ channel = IdleChannel
    /\ voice_requests = << >>
    /\ voice_requests_lock = NoTask
    /\ whisper_lock = NoTask
    /\ whisper_waiters = << >>
    /\ handler = [t \in Tasks |-> IdleHandler]
    /\ response = NoResponse
    /\ printed = NoLine

----------------------------------------------------------------------------
(* The registry operations, as functions of the registry.  Each runs       *)
(* inside "async with voice_requests_lock" and contains no await, so it is *)
(* one uninterrupted step.                                                 *)

(* async with voice_requests_lock: acquired when free, released at the end *)
(* of the block; the block never suspends while holding it.                *)
RegistryCriticalSection ==
    /\ voice_requests_lock = NoTask
    /\ voice_requests_lock' = NoTask

(* secrets.token_hex(8): an id no earlier call returned.  Ids are opaque,  *)
(* so the tokens are numbered in the order they are handed out.            *)
FreshIds == {id \in RequestIds \ DOMAIN voice_requests :
               \A j \in RequestIds \ DOMAIN voice_requests : id <= j}

(* Fault variant of ClaimResult: the status check is missing. *)
ClaimResultNoCheck(reg, id) ==
    IF id \notin DOMAIN reg
    THEN [code |-> 404, registry |-> reg]
    ELSE [code |-> 200, registry |-> [reg EXCEPT ![id].status = "recording"]]

(* Fault variant of ClaimResult: a successful claim does not mark the      *)
(* request as recording.                                                   *)
ClaimResultNoMark(reg, id) ==
    IF id \notin DOMAIN reg
    THEN [code |-> 404, registry |-> reg]
    ELSE IF reg[id].status # "pending"
    THEN [code |-> 400, registry |-> reg]
    ELSE [code |-> 200, registry |-> reg]

(* claim_request: 404 for an unknown id, 400 unless pending, else recording. *)
ClaimResult(reg, id) ==
    IF id \notin DOMAIN reg
    THEN [code |-> 404, registry |-> reg]
    ELSE IF reg[id].status # "pending"
    THEN [code |-> 400, registry |-> reg]
    ELSE [code |-> 200, registry |-> [reg EXCEPT ![id].status = "recording"]]

(* Fault variant of SubmitResult: a request being processed is accepted    *)
(* once more.                                                              *)
SubmitResultWhileProcessing(reg, id) ==
    IF id \notin DOMAIN reg
    THEN [code |-> 404, registry |-> reg]
    ELSE IF reg[id].status \notin {"pending", "recording", "processing"}
    THEN [code |-> 400, registry |-> reg]
    ELSE [code |-> 200, registry |-> [reg EXCEPT ![id].status = "processing"]]

(* Fault variant of SubmitResult: only a request being processed is        *)
(* refused, so a completed one can be submitted again.                     *)
SubmitResultAgain(reg, id) ==
    IF id \notin DOMAIN reg
    THEN [code |-> 404, registry |-> reg]
    ELSE IF reg[id].status = "processing"
    THEN [code |-> 400, registry |-> reg]
    ELSE [code |-> 200, registry |-> [reg EXCEPT ![id].status = "processing"]]

(* Fault variant of SubmitResult: an unknown id gets an entry on the fly   *)
(* (dict.setdefault) instead of a 404.                                     *)
SubmitResultCreates(reg, id) ==
    IF id \notin DOMAIN reg
    THEN [code |-> 200,
          registry |-> reg @@ (id :> [NewRequest(DefaultLanguage)
                                        EXCEPT !.status = "processing"])]
    ELSE IF reg[id].status \notin {"pending", "recording"}
    THEN [code |-> 400, registry |-> reg]
    ELSE [code |-> 200, registry |-> [reg EXCEPT ![id].status = "processing"]]

(* submit_voice_input, first block: 404, 400 unless pending or recording,  *)
(* else processing.                                                        *)
SubmitResult(reg, id) ==
    IF id \notin DOMAIN reg
    THEN [code |-> 404, registry |-> reg]
    ELSE IF reg[id].status \notin {"pending", "recording"}
    THEN [code |-> 400, registry |-> reg]
    ELSE [code |-> 200, registry |-> [reg EXCEPT ![id].status = "processing"]]

(* Fault variant of SubmitLanguage: the stored language is not passed on,  *)
(* so transcribe_audio runs with its default.                              *)
SubmitLanguageDefault(reg, id) == DefaultLanguage

(* The language submit_voice_input reads for transcribe_audio. *)
SubmitLanguage(reg, id) == reg[id].language

(* Fault variant of ResultReply: a missing transcript is reported as "". *)
ResultReplyEmptyDefault(reg, id) ==
    IF id \notin DOMAIN reg
    THEN Rejection("result", id, 404)
    ELSE Reply("result", id, 200, reg[id].status,
               IF reg[id].transcript = None THEN Some(<< >>) ELSE reg[id].transcript,
               reg[id].error, {})

(* get_voice_result: 404 for an unknown id, else the stored fields. *)
ResultReply(reg, id) ==
    IF id \notin DOMAIN reg
    THEN Rejection("result", id, 404)
    ELSE Reply("result", id, 200, reg[id].status, reg[id].transcript,
               reg[id].error, {})

(* Fault variant of PendingList: claimed requests are still listed. *)
PendingListUnclaimed(reg) ==
    {[id |-> i, language |-> reg[i].language] :
        i \in {j \in DOMAIN reg : reg[j].status \in {"pending", "recording"}}}

(* get_pending_requests: id and language of every pending request. *)
PendingList(reg) ==
    {[id |-> i, language |-> reg[i].language] :
        i \in {j \in DOMAIN reg : reg[j].status = "pending"}}

(* Fault variant of StoreResult: the transcript is stored but the status   *)
(* is left at processing.                                                  *)
StoreResultNoStatus(reg, id, result) ==
    IF result.raised
    THEN [reg EXCEPT ![id].status = "error", ![id].error = Some(result.message)]
    ELSE [reg EXCEPT ![id].transcript = Some(result.text)]

(* submit_voice_input, after transcribe_audio: the try body stores the     *)
(* transcript, the except branch stores the error.                         *)
StoreResult(reg, id, result) ==
    IF result.raised
    THEN [reg EXCEPT ![id].status = "error", ![id].error = Some(result.message)]
    ELSE [reg EXCEPT ![id].transcript = Some(result.text), ![id].status = "completed"]

----------------------------------------------------------------------------
(* transcribe_audio *)

(* Fault variant of TranscribeReturn: the overall TimeoutError is not       *)
(* caught and reaches the caller.                                          *)
TranscribeReturnRaisesTimeout(exit, text) ==
    IF exit = "Overall timeout"
    THEN [raised |-> TRUE, text |-> << >>, message |-> "TimeoutError"]
    ELSE [raised |-> FALSE,
          text |-> IF exit = "Got transcript" THEN Strip(text) ELSE << >>,
          message |-> ""]

(* What transcribe_audio hands to its caller on each exit path.  Every     *)
(* exception is caught inside (inner "except Exception" around the read    *)
(* loop, outer "except asyncio.TimeoutError" and "except Exception"), so   *)
(* it always returns a string: the stripped text of the transcript event,  *)
(* or "" on every other path.                                              *)
TranscribeReturn(exit, text) ==
    [raised |-> FALSE,
     text |-> IF exit = "Got transcript" THEN Strip(text) ELSE << >>,
     message |-> ""]

(* Fault variant of LockAvailable: the lock is not consulted. *)
LockAvailableAlways == TRUE

(* asyncio.Lock.acquire() returns at once iff the lock is free and nobody  *)
(* is queued for it.                                                       *)
LockAvailable == whisper_lock = NoTask /\ whisper_waiters = << >>

(* Fault variant of InOverallTimeout: the deadline covers only the wait    *)
(* for the lock.                                                           *)
InOverallTimeoutLockOnly(p) == p = WaitLock

(* Suspension points covered by "async with asyncio.timeout(120)". *)
InOverallTimeout(p) == p \in InTranscribe

(* Suspension points covered by "async with asyncio.timeout(30)". *)
InReadTimeout(p) == p = "read"

(* Fault variant of LockAfterExit: the lock is not released. *)
LockAfterExitKept(t) == whisper_lock

(* whisper_lock after handler t leaves "async with whisper_lock". *)
LockAfterExit(t) == IF whisper_lock = t THEN NoTask ELSE whisper_lock

(* The queue after handler t stops waiting (cancelled acquire). *)
WaitersWithout(t) == SelectSeq(whisper_waiters, LAMBDA w : w # t)

(* Entering transcribe_audio: the handler either takes the free lock and   *)
(* starts connecting, or queues for it.                                    *)
EnterTranscribe(t, h) ==
    IF LockAvailable
    THEN /\ whisper_lock' = t
         /\ whisper_waiters' = whisper_waiters
         /\ handler' = [handler EXCEPT ![t] = [h EXCEPT !.pc = "connect"]]
    ELSE /\ whisper_lock' = whisper_lock
         /\ whisper_waiters' = Append(whisper_waiters, t)
         /\ handler' = [handler EXCEPT ![t] = [h EXCEPT !.pc = WaitLock]]

(* Leaving transcribe_audio on the path that printed `exit`: the           *)
(* connection is closed (async with client), the lock released (async with *)
(* whisper_lock), and the caller runs to its end without suspending.       *)
(* The response of POST /voice-text once transcribe_audio has returned:    *)
(* HTTPException(400) is raised inside the try block, whose except        *)
(* Exception branch raises HTTPException(500, detail=str(e)) in its place. *)
VoiceTextReply(result) ==
    IF result.raised
    THEN Reply("voice-text", NoRequest, 500, "", None, Some(result.message), {})
    ELSE IF result.text = << >>
    THEN Reply("voice-text", NoRequest, 500, "", None,
               Some("400: No speech detected"), {})
    ELSE Reply("voice-text", NoRequest, 200, "ok", Some(result.text), None, {})

LeaveTranscribe(t, exit, text, events) ==
    LET h == handler[t]
        result == TranscribeReturn(exit, text)
    IN  /\ printed' = LogLine(exit, text, events)
        /\ whisper_lock' = LockAfterExit(t)
        /\ whisper_waiters' = WaitersWithout(t)
        /\ handler' = [handler EXCEPT ![t] = IdleHandler]
        /\ IF h.endpoint = "submit"
           THEN /\ RegistryCriticalSection
                /\ voice_requests' = StoreResult(voice_requests, h.request_id, result)
                /\ response' =
                     IF result.raised
                     THEN Reply("submit", h.request_id, 500, "", None,
                                Some(result.message), {})
                     ELSE Reply("submit", h.request_id, 200, "completed",
                                Some(result.text), None, {})
           ELSE IF h.endpoint = "voice-text"
           THEN /\ UNCHANGED <<voice_requests, voice_requests_lock>>
                /\ response' = VoiceTextReply(result)
           ELSE /\ UNCHANGED <<voice_requests, voice_requests_lock>>
                /\ response' =
                     IF result.raised
                     THEN Reply("test-transcribe", NoRequest, 500, "", None,
                                Some(result.message), {})
                     ELSE Reply("test-transcribe", NoRequest, 200, "ok",
                                Some(result.text), None, {})

----------------------------------------------------------------------------
(* Handlers that never suspend: one step each. *)

(* POST /api/request-voice *)
request_voice_input(language) ==
    /\ RegistryCriticalSection
    /\ \E id \in FreshIds :
         /\ voice_requests' = voice_requests @@ (id :> NewRequest(language))
         /\ response' = Reply("request-voice", id, 200, "pending", None, None, {})
    /\ printed' = NoLine
    /\ UNCHANGED <<whisper_lock, whisper_waiters, handler>>
    /\ UNCHANGED <<pollerVars, sessionVars, synthVars>>

(* GET /api/pending-requests *)
get_pending_requests ==
    /\ RegistryCriticalSection
    /\ response' = Reply("pending-requests", NoRequest, 200, "", None, None,
                         PendingList(voice_requests))
    /\ printed' = NoLine
    /\ UNCHANGED <<voice_requests, whisper_lock, whisper_waiters, handler>>
    /\ UNCHANGED <<pollerVars, sessionVars, synthVars>>

(* POST /api/claim-request/{request_id} *)
claim_request(request_id) ==
    LET r == ClaimResult(voice_requests, request_id)
    IN  /\ RegistryCriticalSection
        /\ voice_requests' = r.registry
        /\ response' = IF r.code = 200
                       THEN Reply("claim-request", request_id, 200, "recording",
                                  None, None, {})
                       ELSE Rejection("claim-request", request_id, r.code)
        /\ printed' = NoLine
        /\ UNCHANGED <<whisper_lock, whisper_waiters, handler>>
        /\ UNCHANGED <<pollerVars, sessionVars, synthVars>>

(* GET /api/result/{request_id} *)
get_voice_result(request_id) ==
    /\ RegistryCriticalSection
    /\ response' = ResultReply(voice_requests, request_id)
    /\ printed' = NoLine
    /\ UNCHANGED <<voice_requests, whisper_lock, whisper_waiters, handler>>
    /\ UNCHANGED <<pollerVars, sessionVars, synthVars>>

----------------------------------------------------------------------------
(* Handlers that suspend: submit_voice_input and test_transcribe_only. *)

(* Handler slots are interchangeable: a new handler takes the first free   *)
(* one.                                                                    *)
FreeSlot(t) ==
    /\ handler[t].pc = "idle"
    /\ \A u \in Tasks : handler[u].pc = "idle" => t <= u

(* Fault variant of submit_voice_input: the handler keeps the registry     *)
(* mutex when it goes on to save and transcribe the audio.                 *)
submit_voice_input_holding(t, request_id) ==
    LET r == SubmitResult(voice_requests, request_id)
    IN  /\ FreeSlot(t)
        /\ voice_requests_lock = NoTask
        /\ voice_requests' = r.registry
        /\ IF r.code = 200
           THEN /\ handler' = [handler EXCEPT ![t] =
                      [IdleHandler EXCEPT !.pc = "save", !.endpoint = "submit",
                                          !.request_id = request_id,
                                          !.language = SubmitLanguage(r.registry, request_id)]]
                /\ response' = NoResponse
                /\ voice_requests_lock' = t
           ELSE /\ handler' = handler
                /\ response' = Rejection("submit", request_id, r.code)
                /\ voice_requests_lock' = NoTask
        /\ printed' = NoLine
        /\ UNCHANGED <<whisper_lock, whisper_waiters>>
        /\ UNCHANGED <<pollerVars, sessionVars, synthVars>>

(* POST /api/submit-voice/{request_id}, up to the first suspension (saving *)
(* the upload): the status check and the move to processing.               *)
submit_voice_input(t, request_id) ==
    LET r == SubmitResult(voice_requests, request_id)
    IN  /\ FreeSlot(t)
        /\ RegistryCriticalSection
        /\ voice_requests' = r.registry
        /\ IF r.code = 200
           THEN /\ handler' = [handler EXCEPT ![t] =
                      [IdleHandler EXCEPT !.pc = "save", !.endpoint = "submit",
                                          !.request_id = request_id,
                                          !.language = SubmitLanguage(r.registry, request_id)]]
                /\ response' = NoResponse
           ELSE /\ handler' = handler
                /\ response' = Rejection("submit", request_id, r.code)
        /\ printed' = NoLine
        /\ UNCHANGED <<whisper_lock, whisper_waiters>>
        /\ UNCHANGED <<pollerVars, sessionVars, synthVars>>

(* POST /test-transcribe, up to the first suspension (reading the upload). *)
(* transcribe_audio is called with its default language.                   *)
test_transcribe_only(t) ==
    /\ FreeSlot(t)
    /\ handler' = [handler EXCEPT ![t] =
           [IdleHandler EXCEPT !.pc = "save", !.endpoint = "test-transcribe"]]
    /\ response' = NoResponse
    /\ printed' = NoLine
    /\ UNCHANGED <<voice_requests, voice_requests_lock, whisper_lock, whisper_waiters>>
    /\ UNCHANGED <<pollerVars, sessionVars, synthVars>>

(* The upload is on disk; the handler calls transcribe_audio and runs to   *)
(* "async with whisper_lock" or, the lock being free, to the connect.      *)
save_audio(t) ==
    /\ handler[t].pc = "save"
    /\ EnterTranscribe(t, handler[t])
    /\ response' = NoResponse
    /\ printed' = NoLine
    /\ UNCHANGED <<voice_requests, voice_requests_lock>>
    /\ UNCHANGED <<pollerVars, sessionVars, synthVars>>

(* A queued handler is woken by the release and takes the lock. *)
acquire_whisper_lock(t) ==
    /\ handler[t].pc = WaitLock
    /\ whisper_lock = NoTask
    /\ whisper_waiters # << >>
    /\ Head(whisper_waiters) = t
    /\ whisper_lock' = t
    /\ whisper_waiters' = Tail(whisper_waiters)
    /\ handler' = [handler EXCEPT ![t].pc = "connect"]
    /\ response' = NoResponse
    /\ printed' = NoLine
    /\ UNCHANGED <<voice_requests, voice_requests_lock>>
    /\ UNCHANGED <<pollerVars, sessionVars, synthVars>>

(* async with client: the connection is established, or the attempt fails. *)
connect_backend(t) ==
    /\ handler[t].pc = "connect"
    /\ \E ok \in BOOLEAN :
         IF ok
         THEN /\ handler' = [handler EXCEPT ![t].pc = "send", ![t].connected = TRUE]
              /\ response' = NoResponse
              /\ printed' = NoLine
              /\ UNCHANGED <<voice_requests, voice_requests_lock, whisper_lock,
                             whisper_waiters>>
         ELSE LeaveTranscribe(t, "Error in transcribe_audio", << >>, 0)
    /\ UNCHANGED <<pollerVars, sessionVars, synthVars>>

(* The Transcribe event and the audio events are written, or a write (or   *)
(* opening the WAV file) fails.                                            *)
send_audio(t) ==
    /\ handler[t].pc = "send"
    /\ \E ok \in BOOLEAN :
         IF ok
         THEN /\ handler' = [handler EXCEPT ![t].pc = "read", ![t].event_count = 0]
              /\ response' = NoResponse
              /\ printed' = NoLine
              /\ UNCHANGED <<voice_requests, voice_requests_lock, whisper_lock,
                             whisper_waiters>>
         ELSE LeaveTranscribe(t, "Error in transcribe_audio", << >>, 0)
    /\ UNCHANGED <<pollerVars, sessionVars, synthVars>>

(* Events the backend may deliver to a read_event() call. *)
BackendEvents(h) ==
    {[type |-> "transcript", text |-> x] : x \in Texts}
    \cup {[type |-> y, text |-> << >>] : y \in {"eof", "failure"}}
    \cup (IF h.event_count < MaxNoise
          THEN {[type |-> "other", text |-> << >>]} ELSE {})

(* Events of a backend that is not limited in what it sends. *)
AnyBackendEvents ==
    {[type |-> "transcript", text |-> x] : x \in Texts}
    \cup {[type |-> y, text |-> << >>] : y \in {"eof", "failure", "other"}}

(* Fault variant of ReadTurn: the ceiling test comes one event too late.   *)
ReadTurnLateCeiling(t, event) ==
    LET count == handler[t].event_count + 1
    IN  CASE event.type = "failure" ->
               LeaveTranscribe(t, "Error reading events", << >>, count - 1)
          [] event.type = "eof" ->
               LeaveTranscribe(t, "Got None event", << >>, count)
          [] event.type = "transcript" ->
               LeaveTranscribe(t, "Got transcript", event.text, count)
          [] event.type = "other" /\ count > EventCeiling + 1 ->
               LeaveTranscribe(t, "Too many events", << >>, count)
          [] event.type = "other" /\ count <= EventCeiling + 1 ->
               /\ handler' = [handler EXCEPT ![t].event_count = count]
               /\ response' = NoResponse
               /\ printed' = NoLine
               /\ UNCHANGED <<voice_requests, voice_requests_lock,
                              whisper_lock, whisper_waiters>>

(* One turn of the read loop on the event (or failure) that read_event()   *)
(* delivers: event_count is incremented before the event is looked at; a   *)
(* raising read_event() leaves it as it was.                               *)
ReadTurn(t, event) ==
    LET count == handler[t].event_count + 1
    IN  CASE event.type = "failure" ->
               LeaveTranscribe(t, "Error reading events", << >>, count - 1)
          [] event.type = "eof" ->
               LeaveTranscribe(t, "Got None event", << >>, count)
          [] event.type = "transcript" ->
               LeaveTranscribe(t, "Got transcript", event.text, count)
          [] event.type = "other" /\ count > EventCeiling ->
               LeaveTranscribe(t, "Too many events", << >>, count)
          [] event.type = "other" /\ count <= EventCeiling ->
               /\ handler' = [handler EXCEPT ![t].event_count = count]
               /\ response' = NoResponse
               /\ printed' = NoLine
               /\ UNCHANGED <<voice_requests, voice_requests_lock,
                              whisper_lock, whisper_waiters>>

(* One turn of the read loop: read_event() returns (or raises). *)
read_event(t) ==
    /\ handler[t].pc = "read"
    /\ \E event \in BackendEvents(handler[t]) : ReadTurn(t, event)
    /\ UNCHANGED <<pollerVars, sessionVars, synthVars>>

(* The same turn against a backend that sends any number of events. *)
read_event_stream(t) ==
    /\ handler[t].pc = "read"
    /\ \E event \in AnyBackendEvents : ReadTurn(t, event)
    /\ UNCHANGED <<pollerVars, sessionVars, synthVars>>

(* asyncio.timeout(30) expires while the handler waits for an event. *)
read_timeout(t) ==
    /\ InReadTimeout(handler[t].pc)
    /\ LeaveTranscribe(t, "Timeout waiting for transcript", << >>,
                       handler[t].event_count)
    /\ UNCHANGED <<pollerVars, sessionVars, synthVars>>

(* asyncio.timeout(120) expires while the handler waits for the lock, the  *)
(* connection, a write or an event.                                        *)
overall_timeout(t) ==
    /\ InOverallTimeout(handler[t].pc)
    /\ LeaveTranscribe(t, "Overall timeout", << >>, handler[t].event_count)
    /\ UNCHANGED <<pollerVars, sessionVars, synthVars>>

----------------------------------------------------------------------------
Next ==
    \/ \E language \in Languages : request_voice_input(language)
    \/ get_pending_requests
    \/ \E id \in RequestIds : claim_request(id)
    \/ \E id \in RequestIds : get_voice_result(id)
    \/ \E t \in Tasks, id \in RequestIds : submit_voice_input(t, id)
    \/ \E t \in Tasks : test_transcribe_only(t)
    \/ \E t \in Tasks : save_audio(t)
    \/ \E t \in Tasks : acquire_whisper_lock(t)
    \/ \E t \in Tasks : connect_backend(t)
    \/ \E t \in Tasks : send_audio(t)
    \/ \E t \in Tasks : read_event(t)
    \/ \E t \in Tasks : read_timeout(t)
    \/ \E t \in Tasks : overall_timeout(t)

Spec == Init /\ [][Next]_vars

(* The event loop keeps running: a finished save resumes its handler, and  *)
(* a timer whose deadline has passed fires.  Nothing is assumed of the     *)
(* backend, which may stay silent forever.                                 *)
Fairness ==
    \A t \in Tasks :
        /\ WF_vars(save_audio(t))
        /\ WF_vars(overall_timeout(t))

SpecFair == Spec /\ Fairness

(* Reading the upload or writing it to the temporary directory raises.     *)
(* In every handler this code stands before the try block, so the          *)
(* exception leaves the handler and the framework answers 500; in          *)
(* submit_voice_input the request has been moved to processing before.     *)
save_fails(t) ==
    /\ handler[t].pc = "save"
    /\ handler' = [handler EXCEPT ![t] = IdleHandler]
    /\ response' = Reply(handler[t].endpoint, handler[t].request_id, 500, "", None,
                         Some("OSError"), {})
    /\ printed' = NoLine
    /\ UNCHANGED <<voice_requests, voice_requests_lock, whisper_lock, whisper_waiters>>
    /\ UNCHANGED <<pollerVars, sessionVars, synthVars>>

(* The server with a temporary directory that can fail. *)
NextFault ==
    \/ Next
    \/ \E t \in Tasks : save_fails(t)

SpecFault == Init /\ [][NextFault]_vars

SpecFaultFair == SpecFault /\ Fairness

(* One call of transcribe_audio, followed through its read loop against a  *)
(* backend that is free to send any number of events.                      *)
ReadTask == 1

NextRead ==
    \/ test_transcribe_only(ReadTask)
    \/ save_audio(ReadTask)
    \/ connect_backend(ReadTask)
    \/ send_audio(ReadTask)
    \/ read_event_stream(ReadTask)
    \/ read_timeout(ReadTask)
    \/ overall_timeout(ReadTask)

SpecRead == Init /\ [][NextRead]_vars

(* POST /voice-text, up to the first suspension (reading the upload).  The *)
(* session that get_session returns or creates is not used: the call of    *)
(* send_message is commented out in this handler.                          *)
voice_text_interaction(t) ==
    /\ FreeSlot(t)
    /\ handler' = [handler EXCEPT ![t] =
           [IdleHandler EXCEPT !.pc = "save", !.endpoint = "voice-text"]]
    /\ response' = NoResponse
    /\ printed' = NoLine
    /\ UNCHANGED <<voice_requests, voice_requests_lock, whisper_lock, whisper_waiters>>
    /\ UNCHANGED <<pollerVars, sessionVars, synthVars>>

(* One /voice-text handler at a time, with the whole event stream of the   *)
(* backend.                                                                *)
NextVoiceText ==
    \/ voice_text_interaction(ReadTask)
    \/ save_audio(ReadTask)
    \/ connect_backend(ReadTask)
    \/ send_audio(ReadTask)
    \/ read_event_stream(ReadTask)
    \/ read_timeout(ReadTask)
    \/ overall_timeout(ReadTask)

SpecVoiceText == Init /\ [][NextVoiceText]_vars

----------------------------------------------------------------------------
(* The polling client: VoiceClient.get_voice_input (client.py) under        *)
(* call_tool (mcp server.py).  The client awaits at the POST, at every GET  *)
(* and in asyncio.sleep(1); the clock may advance at each of them.  The     *)
(* voice server is seen through the one request the call creates: its       *)
(* status moves as the browser claims it, submits audio, and the            *)
(* transcription ends.                                                      *)

ToolNames == {"get_voice_input", "other_tool"}
Timeouts == 0..MaxTimeout
HttpResults == {"ok", "HTTPStatusError", "ConnectError"}

TextContent(message, transcript, detail) ==
    [type |-> "text", message |-> message, transcript |-> transcript,
     detail |-> detail]

UnknownTool(name) ==
    [returned |-> TRUE, name |-> name, raised |-> FALSE,
     content |-> <<TextContent("Unknown tool", None, name)>>]

(* Fault variant of CallToolResult: only TimeoutError is caught. *)
CallToolResultTimeoutOnly(outcome) ==
    CASE outcome.kind = "transcript" ->
           [returned |-> TRUE, name |-> "get_voice_input", raised |-> FALSE,
            content |-> <<TextContent("Voice input received",
                                      Some(outcome.text), "")>>]
      [] outcome.kind = "TimeoutError" ->
           [returned |-> TRUE, name |-> "get_voice_input", raised |-> FALSE,
            content |-> <<TextContent("Voice input timed out", None, "")>>]
      [] OTHER ->
           [returned |-> TRUE, name |-> "get_voice_input", raised |-> TRUE,
            content |-> << >>]

(* call_tool on the outcome of get_voice_input: the return, "except         *)
(* TimeoutError" and "except Exception" each build one TextContent.         *)
CallToolResult(outcome) ==
    CASE outcome.kind = "transcript" ->
           [returned |-> TRUE, name |-> "get_voice_input", raised |-> FALSE,
            content |-> <<TextContent("Voice input received",
                                      Some(outcome.text), "")>>]
      [] outcome.kind = "TimeoutError" ->
           [returned |-> TRUE, name |-> "get_voice_input", raised |-> FALSE,
            content |-> <<TextContent("Voice input timed out", None, "")>>]
      [] OTHER ->
           [returned |-> TRUE, name |-> "get_voice_input", raised |-> FALSE,
            content |-> <<TextContent("Error getting voice input", None,
                                      outcome.kind)>>]

(* get_voice_input ends (returns or raises) and call_tool returns. *)
Finish(p, outcome) ==
    /\ poller' = [p EXCEPT !.pc = "done", !.outcome = outcome]
    /\ tool_result' = CallToolResult(outcome)

(* Top of the "while True" loop: the deadline test, then the GET is sent.   *)
PollTurn(p) ==
    IF clock - p.start_time > p.timeout
    THEN Finish(p, [kind |-> "TimeoutError", text |-> << >>])
    ELSE /\ poller' = [p EXCEPT !.pc = "fetch"]
         /\ tool_result' = tool_result

(* Fault variant of FetchStep: a failed fetch is retried after the sleep.  *)
FetchStepRetry(result, status) ==
    IF result = "ok" /\ status = "completed" THEN "return" ELSE "sleep"

(* What the loop does with the answer to its GET: raise_for_status() (or    *)
(* the failed call itself) raises, a completed request is returned, and     *)
(* any other status sends the loop to sleep.                                *)
FetchStep(result, status) ==
    IF result # "ok" THEN "raise"
    ELSE IF status = "completed" THEN "return"
    ELSE "sleep"

(* mcp server.py call_tool(name, arguments) *)
call_tool(name, language, timeout) ==
    /\ IF name # "get_voice_input"
       THEN /\ tool_result' = UnknownTool(name)
            /\ UNCHANGED <<poller, remote>>
       ELSE /\ poller.pc \in {"idle", "done"}
            /\ poller' = [IdlePoller EXCEPT !.pc = "create", !.language = language,
                                            !.timeout = timeout]
            /\ remote' = NoRemote
            /\ tool_result' = NoToolResult
    /\ UNCHANGED <<clock, serverVars, sessionVars, synthVars>>

(* The POST /api/request-voice is answered. *)
create_reply(result) ==
    /\ poller.pc = "create"
    /\ IF result = "ok"
       THEN /\ remote' = [NoRemote EXCEPT !.status = "pending",
                                          !.language = poller.language]
            /\ PollTurn([poller EXCEPT !.creates = @ + 1, !.exchange = result,
                                       !.start_time = clock])
       ELSE /\ remote' = remote
            /\ Finish([poller EXCEPT !.exchange = result],
                      [kind |-> result, text |-> << >>])
    /\ UNCHANGED <<clock, serverVars, sessionVars, synthVars>>

(* The GET /api/result/{request_id} is answered. *)
fetch_reply(result) ==
    /\ poller.pc = "fetch"
    /\ LET p == [poller EXCEPT !.exchange = result,
                               !.seen = IF result = "ok" THEN remote.status ELSE @]
           step == FetchStep(result, remote.status)
       IN  CASE step = "raise" ->
                  Finish(p, [kind |-> result, text |-> << >>])
             [] step = "return" ->
                  Finish(p, [kind |-> "transcript", text |-> remote.transcript[1]])
             [] step = "sleep" ->
                  /\ poller' = [p EXCEPT !.pc = "sleep",
                                         !.wake_at = clock + PollInterval]
                  /\ tool_result' = tool_result
    /\ UNCHANGED <<clock, remote, serverVars, sessionVars, synthVars>>

(* Fault variant of wake: a poller that gives up withdraws its request. *)
wake_withdraws ==
    /\ poller.pc = "sleep"
    /\ clock >= poller.wake_at
    /\ PollTurn(poller)
    /\ remote' = IF clock - poller.start_time > poller.timeout
                 THEN NoRemote ELSE remote
    /\ UNCHANGED <<clock, serverVars, sessionVars, synthVars>>

(* asyncio.sleep(1) is over: the loop starts its next turn. *)
wake ==
    /\ poller.pc = "sleep"
    /\ clock >= poller.wake_at
    /\ PollTurn(poller)
    /\ UNCHANGED <<clock, remote, serverVars, sessionVars, synthVars>>

(* Time passes. *)
tick ==
    /\ clock < MaxClock
    /\ clock' = clock + 1
    /\ UNCHANGED <<remote, poller, tool_result, serverVars, sessionVars, synthVars>>

(* The browser claims the request (claim_request). *)
remote_claim ==
    /\ remote.status = "pending"
    /\ remote' = [remote EXCEPT !.status = "recording"]
    /\ UNCHANGED <<clock, poller, tool_result, serverVars, sessionVars, synthVars>>

(* The browser submits audio (submit_voice_input up to its first await). *)
remote_submit ==
    /\ remote.status \in {"pending", "recording"}
    /\ remote' = [remote EXCEPT !.status = "processing"]
    /\ UNCHANGED <<clock, poller, tool_result, serverVars, sessionVars, synthVars>>

(* The transcription ends and submit_voice_input stores its result: the    *)
(* stripped transcript, or the error.                                      *)
remote_store(ok, text) ==
    /\ remote.status = "processing"
    /\ remote' = IF ok
                 THEN [remote EXCEPT !.status = "completed",
                                     !.transcript = Some(Strip(text)),
                                     !.completed_at = clock]
                 ELSE [remote EXCEPT !.status = "error", !.completed_at = clock]
    /\ UNCHANGED <<clock, poller, tool_result, serverVars, sessionVars, synthVars>>

NextPoller ==
    \/ \E name \in ToolNames, language \in Languages, timeout \in Timeouts :
         call_tool(name, language, timeout)
    \/ \E result \in HttpResults : create_reply(result)
    \/ \E result \in HttpResults : fetch_reply(result)
    \/ wake
    \/ tick
    \/ remote_claim
    \/ remote_submit
    \/ \E ok \in BOOLEAN, text \in Texts : remote_store(ok, text)

SpecPoller == Init /\ [][NextPoller]_vars

----------------------------------------------------------------------------
(* The conversation session: ClaudeSession (server.py).  send_message is   *)
(* synchronous code (blocking subprocess I/O, no await), so one call is    *)
(* one step.  The conversational backend and the file system are the       *)
(* environment: starting the subprocess, the exchange on its pipes, the    *)
(* one-shot invocation and each write of the history file may fail.        *)

Prompts == {"p", "q"}
Replies == {"r", "s"}

(* What the interactive exchange does after the subprocess is running: the *)
(* lines read up to the delimiter, end of stream before any line, or an    *)
(* exception from write, flush or readline.                                *)
InteractiveResults ==
    {[kind |-> "reply", text |-> r] : r \in Replies}
    \cup {[kind |-> "eof", text |-> ""], [kind |-> "BrokenPipeError", text |-> ""]}

(* What subprocess.run(..., timeout=120) does: output, or an exception. *)
OneShotResults ==
    {[kind |-> "reply", text |-> r] : r \in Replies}
    \cup {[kind |-> k, text |-> ""] : k \in {"TimeoutExpired", "FileNotFoundError"}}

Turn(role, content) == [role |-> role, content |-> content]

(* The two appends made for one exchange. *)
Recorded(history, prompt, reply) ==
    history \o <<Turn("user", prompt), Turn("assistant", reply)>>

(* json.dump of the history: one object per turn, as (role, content). *)
Dump(history) ==
    [k \in 1..Len(history) |-> <<history[k].role, history[k].content>>]

(* json.load of a history file. *)
Load(file) == [k \in 1..Len(file) |-> Turn(file[k][1], file[k][2])]

(* Fault variant of SaveHistory: only the last exchange is written. *)
SaveHistoryLastExchange(history, file, ok) ==
    IF ~ok THEN file
    ELSE IF Len(history) < 2 THEN Dump(history)
    ELSE Dump(SubSeq(history, Len(history) - 1, Len(history)))

(* _save_history: the file holds the whole history, or the write raises    *)
(* and the file is as before.                                              *)
SaveHistory(history, file, ok) == IF ok THEN Dump(history) ELSE file

Label(role) == IF role = "user" THEN "User" ELSE "Assistant"

Line(label, content) == [label |-> label, content |-> content]

(* Fault variant of FullPrompt: the context is the first turns, not the    *)
(* last ones.                                                              *)
FullPromptOldest(history, prompt) ==
    LET n == IF Len(history) < ContextTurns THEN Len(history) ELSE ContextTurns
    IN  IF n = 0 THEN <<Line("", prompt)>>
        ELSE [k \in 1..n |-> Line(Label(history[k].role), history[k].content)]
             \o <<Line("User", prompt)>>

(* full_prompt of _fallback_message: "Label: content" for each of          *)
(* conversation_history[-6:], then "User: prompt"; the bare prompt when    *)
(* the context is empty.                                                   *)
FullPrompt(history, prompt) ==
    LET first == IF Len(history) > ContextTurns
                 THEN Len(history) - ContextTurns + 1 ELSE 1
        context == SubSeq(history, first, Len(history))
    IN  IF context = << >> THEN <<Line("", prompt)>>
        ELSE [k \in 1..Len(context) |->
                 Line(Label(context[k].role), context[k].content)]
             \o <<Line("User", prompt)>>

(* _fallback_message on the history as it stands when it is called. *)
FallbackMessage(history, file, prompt, oneshot, save_ok) ==
    IF oneshot.kind # "reply"
    THEN [raised |-> FALSE, returned |-> Some("Error: " \o oneshot.kind),
          variant |-> "none", history |-> history, file |-> file,
          oneshot |-> oneshot.kind, full_prompt |-> FullPrompt(history, prompt)]
    ELSE IF save_ok
    THEN [raised |-> FALSE, returned |-> Some(oneshot.text), variant |-> "one-shot",
          history |-> Recorded(history, prompt, oneshot.text),
          file |-> SaveHistory(Recorded(history, prompt, oneshot.text), file, TRUE),
          oneshot |-> oneshot.kind, full_prompt |-> FullPrompt(history, prompt)]
    ELSE [raised |-> FALSE, returned |-> Some("Error: OSError"), variant |-> "none",
          history |-> Recorded(history, prompt, oneshot.text),
          file |-> SaveHistory(Recorded(history, prompt, oneshot.text), file, FALSE),
          oneshot |-> oneshot.kind, full_prompt |-> FullPrompt(history, prompt)]

(* send_message once the subprocess is running: the try block, and the     *)
(* fallback from its except branch.                                        *)
Exchange(history, file, prompt, chat, save_ok, oneshot, fallback_save_ok) ==
    IF chat.kind = "BrokenPipeError"
    THEN FallbackMessage(history, file, prompt, oneshot, fallback_save_ok)
    ELSE IF save_ok
    THEN [raised |-> FALSE, returned |-> Some(chat.text), variant |-> "interactive",
          history |-> Recorded(history, prompt, chat.text),
          file |-> SaveHistory(Recorded(history, prompt, chat.text), file, TRUE),
          oneshot |-> "unused", full_prompt |-> << >>]
    ELSE FallbackMessage(Recorded(history, prompt, chat.text), file, prompt,
                         oneshot, fallback_save_ok)

(* Fault variant of NeedsStart: a subprocess is started for every send. *)
NeedsStartAlways(proc) == TRUE

(* start_interactive: self.process is None or self.process.poll() is not   *)
(* None.                                                                   *)
NeedsStart(proc) == proc # "running"

(* What the environment does during one send_message: whether Popen       *)
(* succeeds, the interactive exchange, the save after it, the one-shot     *)
(* invocation and the save after that.  A part that the call does not      *)
(* reach is left at its first value, so that each course of the call is    *)
(* listed once.                                                            *)
SendCourses ==
    {e \in [started : BOOLEAN, chat : InteractiveResults, save_ok : BOOLEAN,
            oneshot : OneShotResults, fallback_save_ok : BOOLEAN] :
        LET interactive_done == e.started /\ e.chat.kind # "BrokenPipeError" /\ e.save_ok
            oneshot_reached == e.started /\ ~interactive_done
        IN  /\ ~e.started => e.chat.kind = "eof"
            /\ (~e.started \/ e.chat.kind = "BrokenPipeError") => e.save_ok
            /\ ~oneshot_reached => e.oneshot.kind = "TimeoutExpired"
            /\ (~oneshot_reached \/ e.oneshot.kind # "reply") => e.fallback_save_ok}

(* ClaudeSession.send_message(prompt) *)
send_message(prompt) ==
    /\ Len(conversation_history) < MaxTurns
    /\ \E e \in SendCourses :
         LET started == e.started
             chat == e.chat
             save_ok == e.save_ok
             oneshot == e.oneshot
             fallback_save_ok == e.fallback_save_ok
         IN
         /\ NeedsStart(process) \/ started
         /\ (NeedsStart(process) /\ started) => children < MaxSpawns
         /\ IF NeedsStart(process) /\ ~started
            THEN \* start_interactive: Popen raises, outside the try block
                 /\ sent' = [NoSent EXCEPT !.op = "send", !.prompt = prompt,
                                           !.raised = TRUE,
                                           !.interactive = "not started"]
                 /\ UNCHANGED <<process, children, live, conversation_history,
                                history_file, exchanges>>
            ELSE LET r == Exchange(conversation_history, history_file, prompt, chat,
                                   save_ok, oneshot, fallback_save_ok)
                 IN  /\ process' = "running"
                     /\ children' = IF NeedsStart(process) THEN children + 1
                                    ELSE children
                     /\ live' = IF NeedsStart(process) THEN live \cup {children + 1}
                                ELSE live
                     /\ conversation_history' = r.history
                     /\ history_file' = r.file
                     /\ sent' = [op |-> "send", prompt |-> prompt, raised |-> r.raised,
                                 returned |-> r.returned, variant |-> r.variant,
                                 interactive |-> chat.kind, oneshot |-> r.oneshot,
                                 full_prompt |-> r.full_prompt]
                     /\ exchanges' = IF r.variant = "none" THEN exchanges
                                     ELSE Append(exchanges,
                                                 [prompt |-> prompt, reply |-> r.returned[1]])
    /\ UNCHANGED <<serverVars, pollerVars, synthVars, channel>>

(* The interactive subprocess ends on its own. *)
process_exits ==
    /\ process = "running"
    /\ process' = "exited"
    /\ live' = live \ {children}
    /\ UNCHANGED <<children, conversation_history, history_file, sent, exchanges>>
    /\ UNCHANGED <<serverVars, pollerVars, synthVars, channel>>

(* ClaudeSession.close(): stdin is closed, the subprocess is sent SIGTERM   *)
(* and waited for 5 seconds; wait() raises TimeoutExpired when it is still *)
(* running then.                                                           *)
close(exits) ==
    /\ IF process = "running"
       THEN IF exits
            THEN /\ process' = "exited"
                 /\ live' = live \ {children}
                 /\ sent' = [NoSent EXCEPT !.op = "close"]
            ELSE /\ sent' = [NoSent EXCEPT !.op = "close", !.raised = TRUE]
                 /\ UNCHANGED <<process, live>>
       ELSE /\ sent' = [NoSent EXCEPT !.op = "close"]
            /\ UNCHANGED <<process, live>>
    /\ UNCHANGED <<children, conversation_history, history_file, exchanges>>
    /\ UNCHANGED <<serverVars, pollerVars, synthVars, channel>>

(* POST /session/{session_id}/clear: the history is emptied and saved; a   *)
(* failing save leaves the handler as an exception.                        *)
clear_session(save_ok) ==
    /\ conversation_history' = << >>
    /\ history_file' = SaveHistory(<< >>, history_file, save_ok)
    /\ exchanges' = << >>
    /\ sent' = [NoSent EXCEPT !.op = "clear", !.raised = ~save_ok]
    /\ UNCHANGED <<process, children, live>>
    /\ UNCHANGED <<serverVars, pollerVars, synthVars, channel>>

(* get_session(session_id) on a session that is in `sessions`: the object  *)
(* is returned as it is.                                                   *)
get_session ==
    /\ sent' = [NoSent EXCEPT !.op = "lookup"]
    /\ UNCHANGED <<process, children, live, conversation_history, history_file,
                   exchanges>>
    /\ UNCHANGED <<serverVars, pollerVars, synthVars, channel>>

(* The server is restarted (its subprocesses end with it) and the session  *)
(* is asked for again: get_session constructs ClaudeSession(session_id),   *)
(* which loads the history file.                                           *)
restart_server ==
    /\ process' = NoProcess
    /\ live' = {}
    /\ conversation_history' = Load(history_file)
    /\ sent' = [NoSent EXCEPT !.op = "load"]
    /\ UNCHANGED <<children, history_file, exchanges>>
    /\ UNCHANGED <<serverVars, pollerVars, synthVars, channel>>

NextSession ==
    \/ \E prompt \in Prompts : send_message(prompt)
    \/ process_exits
    \/ \E exits \in BOOLEAN : close(exits)
    \/ \E save_ok \in BOOLEAN : clear_session(save_ok)
    \/ get_session
    \/ restart_server

SpecSession == Init /\ [][NextSession]_vars

(* The one-shot invocation on its own, on the histories a session can have *)
(* loaded from its file: exchanges of a user turn and an assistant turn.   *)
RECURSIVE HistoriesOf(_)
HistoriesOf(n) ==
    IF n = 0 THEN {<< >>}
    ELSE {Recorded(h, p, r) : h \in HistoriesOf(n - 1), p \in Prompts, r \in Replies}

Histories == UNION {HistoriesOf(n) : n \in 0..(MaxHistory \div 2)}

(* ClaudeSession.__init__ of a session whose history file exists. *)
InitPrompt ==
    /\ clock = 0
    /\ remote = NoRemote
    /\ poller = IdlePoller
    /\ tool_result = NoToolResult
    /\ process = NoProcess
    /\ children = 0
    /\ live = {}
    /\ synth = IdleSynth
    /\ conversation_history \in Histories
    /\ history_file = Dump(conversation_history)
    /\ sent = NoSent
    /\ exchanges = << >>
    /\ channel = IdleChannel
    /\ voice_requests = << >>
    /\ voice_requests_lock = NoTask
    /\ whisper_lock = NoTask
    /\ whisper_waiters = << >>
    /\ handler = [t \in Tasks |-> IdleHandler]
    /\ response = NoResponse
    /\ printed = NoLine

(* ClaudeSession._fallback_message(prompt) *)
fallback_message(prompt) ==
    /\ Len(conversation_history) <= MaxHistory
    /\ \E oneshot \in OneShotResults, save_ok \in BOOLEAN :
         /\ oneshot.kind # "reply" => save_ok
         /\ LET r == FallbackMessage(conversation_history, history_file, prompt,
                                     oneshot, save_ok)
            IN  /\ conversation_history' = r.history
                /\ history_file' = r.file
                /\ sent' = [op |-> "fallback", prompt |-> prompt, raised |-> r.raised,
                            returned |-> r.returned, variant |-> r.variant,
                            interactive |-> "none", oneshot |-> r.oneshot,
                            full_prompt |-> r.full_prompt]
                /\ exchanges' = IF r.variant = "none" THEN exchanges
                                ELSE Append(exchanges,
                                            [prompt |-> prompt, reply |-> r.returned[1]])
    /\ UNCHANGED <<process, children, live>>
    /\ UNCHANGED <<serverVars, pollerVars, synthVars, channel>>

NextPrompt == \E prompt \in Prompts : fallback_message(prompt)

SpecPrompt == InitPrompt /\ [][NextPrompt]_vars

----------------------------------------------------------------------------
(* Text to speech: synthesize_speech (server.py).  One call is followed    *)
(* from the connection to its end; it awaits at the connection, at the     *)
(* write of the Synthesize event and at every read_event().  The backend   *)
(* is the environment; synth.stream records the events it has delivered    *)
(* to the call.  The output path is new for every call, so no file is      *)
(* there before.                                                           *)

Payloads == {<< >>, <<1>>, <<2, 3>>}

SynthEvents ==
    {[type |-> "audio-chunk", audio |-> a] : a \in Payloads}
    \cup {[type |-> y, audio |-> << >>] :
             y \in {"audio-stop", "eof", "audio-start", "failure"}}

(* b"".join(audio_chunks) *)
RECURSIVE Join(_)
Join(chunks) == IF chunks = << >> THEN << >>
                ELSE Head(chunks) \o Join(Tail(chunks))

(* The WAV file written by the wave module. *)
WavFile(frames) ==
    [nchannels |-> 1, sampwidth |-> 2, framerate |-> 22050, frames |-> frames]

(* The file at output_path when the read loop is over: written only        *)
(* "if audio_chunks".                                                      *)
WrittenFile(chunks) ==
    IF chunks # << >> THEN Some(WavFile(Join(chunks))) ELSE None

(* synthesize_speech is called: the client is created and connects. *)
synthesize_speech ==
    /\ synth.pc \in {"idle", "done"}
    /\ synth' = [IdleSynth EXCEPT !.pc = "connect"]
    /\ UNCHANGED <<serverVars, pollerVars, sessionVars>>

(* async with client, and the write of the Synthesize event: both done, or *)
(* one of them raises.                                                     *)
synth_connect(ok) ==
    /\ synth.pc = "connect"
    /\ synth' = IF ok THEN [synth EXCEPT !.pc = "read"]
                ELSE [synth EXCEPT !.pc = "done", !.raised = TRUE]
    /\ UNCHANGED <<serverVars, pollerVars, sessionVars>>

(* One turn of the read loop.  A stream that has reached MaxEvents events  *)
(* can still end; a backend that sends nothing is a step never taken.      *)
synth_read(event) ==
    /\ synth.pc = "read"
    /\ Len(synth.stream) < MaxEvents \/ event.type \in {"eof", "audio-stop", "failure"}
    /\ LET s == [synth EXCEPT !.stream = Append(@, event)]
       IN  synth' =
             CASE event.type = "failure" ->
                    [s EXCEPT !.pc = "done", !.raised = TRUE]
               [] event.type \in {"eof", "audio-stop"} ->
                    [s EXCEPT !.pc = "done", !.wav = WrittenFile(s.audio_chunks)]
               [] event.type = "audio-chunk" ->
                    [s EXCEPT !.audio_chunks = Append(@, event.audio)]
               [] OTHER -> s
    /\ UNCHANGED <<serverVars, pollerVars, sessionVars>>

NextSynth ==
    \/ synthesize_speech
    \/ \E ok \in BOOLEAN : synth_connect(ok)
    \/ \E event \in SynthEvents : synth_read(event)

SpecSynth == Init /\ [][NextSynth]_vars

(* The event loop resumes the call when its connection attempt has ended.  *)
(* Nothing is assumed of the backend: it may send nothing more.            *)
SpecSynthFair == SpecSynth /\ \A ok \in BOOLEAN : WF_vars(synth_connect(ok))

----------------------------------------------------------------------------
(* The interactive exchange of send_message, line by line. *)

(* Lines the subprocess writes: text, its prompt line, a quotation, and a  *)
(* line with the marker inside.                                            *)
PromptLine == <<">">>
Lines == {<<"a">>, PromptLine, <<" ", ">", "a">>, <<"a", ">">>}

(* line.strip().startswith(">") *)
IsDelimiter(line) == Strip(line) # << >> /\ Head(Strip(line)) = ">"

(* What the subprocess writes in answer to one prompt: any lines, then its *)
(* prompt line.                                                            *)
Outputs == {body \o <<PromptLine>> : body \in UNION {[1..n -> Lines] : n \in 0..MaxLines}}

(* The lines of an answer in the pipe, each with the number of the prompt  *)
(* it answers.                                                             *)
Written(output, k) == [j \in 1..Len(output) |-> [turn |-> k, text |-> output[j]]]

(* The read loop: readline() until the pipe is at its end or a line is a   *)
(* delimiter; that line is consumed, the lines before it are the response. *)
RECURSIVE ReadLoop(_, _)
ReadLoop(pipe, response_lines) ==
    IF pipe = << >> THEN [response_lines |-> response_lines, rest |-> << >>]
    ELSE IF IsDelimiter(Head(pipe).text)
    THEN [response_lines |-> response_lines, rest |-> Tail(pipe)]
    ELSE ReadLoop(Tail(pipe), Append(response_lines, Head(pipe)))

(* "".join(response_lines).strip() *)
ResponseText(response_lines) ==
    Strip(Join([j \in 1..Len(response_lines) |-> response_lines[j].text]))

(* ClaudeSession.send_message(prompt) on a subprocess that answers every   *)
(* prompt and ends its answer with its prompt line, with a history file    *)
(* that can be written: the interactive exchange done line by line.        *)
chat_exchange(prompt, output) ==
    /\ channel.turn < MaxExchanges
    /\ NeedsStart(process) => children < MaxSpawns
    /\ LET k == channel.turn + 1
           pipe == (IF NeedsStart(process) THEN << >> ELSE channel.stdout)
                   \o Written(output, k)
           read == ReadLoop(pipe, << >>)
           r == Exchange(conversation_history, history_file, prompt,
                         [kind |-> "reply", text |-> ResponseText(read.response_lines)],
                         TRUE, [kind |-> "TimeoutExpired", text |-> ""], TRUE)
       IN  /\ process' = "running"
           /\ children' = IF NeedsStart(process) THEN children + 1 ELSE children
           /\ live' = IF NeedsStart(process) THEN live \cup {children + 1} ELSE live
           /\ conversation_history' = r.history
           /\ history_file' = r.file
           /\ sent' = [op |-> "send", prompt |-> prompt, raised |-> r.raised,
                       returned |-> r.returned, variant |-> r.variant,
                       interactive |-> "reply", oneshot |-> r.oneshot,
                       full_prompt |-> r.full_prompt]
           /\ exchanges' = Append(exchanges, [prompt |-> prompt, reply |-> r.returned[1]])
           /\ channel' = [stdout |-> read.rest, turn |-> k,
                          response_lines |-> read.response_lines]
    /\ UNCHANGED <<serverVars, pollerVars, synthVars>>

NextChannel == \E prompt \in Prompts, output \in Outputs : chat_exchange(prompt, output)

SpecChannel == Init /\ [][NextChannel]_vars

TypeOK ==
    /\ DOMAIN voice_requests \subseteq RequestIds
    /\ \A i \in DOMAIN voice_requests :
         /\ voice_requests[i].status \in
              {"pending", "recording", "processing", "completed", "error"}
         /\ voice_requests[i].language \in Languages
    /\ whisper_lock \in Tasks \cup {NoTask}
    /\ \A t \in Tasks : handler[t].pc \in {"idle", "save"} \cup InTranscribe

----------------------------------------------------------------------------
(* Steps, recognised from the outside. *)

Status(i) == voice_requests[i].status

(* The step just taken answered a claim of request i. *)
ClaimAttempt(i) ==
    response'.op = "claim-request" /\ response'.request_id = i

(* The step just taken was a submit call for request i: rejected at the    *)
(* status check, or accepted (a handler left idle for i).                  *)
SubmitAccepted(i) ==
    \E t \in Tasks :
        /\ handler[t].pc = "idle"
        /\ handler'[t].pc = "save"
        /\ handler'[t].endpoint = "submit"
        /\ handler'[t].request_id = i

SubmitRejected(i) ==
    response'.op = "submit" /\ response'.request_id = i /\ response'.code \in {400, 404}

SubmitAttempt(i) == SubmitAccepted(i) \/ SubmitRejected(i)

(* The step just taken ended the submit handler of request i. *)
SubmitEnded(i) ==
    response'.op = "submit" /\ response'.request_id = i /\ response'.code \in {200, 500}

(* The same, read in the state the step led to. *)
SubmitJustEnded(i) ==
    response.op = "submit" /\ response.request_id = i /\ response.code \in {200, 500}

GetAttempt(i) ==
    response'.op = "result" /\ response'.request_id = i

Blank(text) == \A k \in 1..Len(text) : text[k] = " "

----------------------------------------------------------------------------
(* C1: a request's status changes only along pending->recording (claim),   *)
(* pending->processing and recording->processing (submit),                 *)
(* processing->completed and processing->error (end of submit); a claim or *)
(* submit attempted in any other status is answered 400 and leaves the     *)
(* whole request (status, transcript, error, language) unchanged.          *)
TransitionStep ==
    \A i \in DOMAIN voice_requests :
        /\ Status(i) # voice_requests'[i].status =>
             \/ /\ Status(i) = "pending"
                /\ voice_requests'[i].status = "recording"
                /\ ClaimAttempt(i) /\ response'.code = 200
             \/ /\ Status(i) \in {"pending", "recording"}
                /\ voice_requests'[i].status = "processing"
                /\ SubmitAccepted(i)
             \/ /\ Status(i) = "processing"
                /\ voice_requests'[i].status \in {"completed", "error"}
                /\ SubmitEnded(i)
        /\ (ClaimAttempt(i) /\ Status(i) # "pending") =>
             /\ response'.code = 400
             /\ voice_requests'[i] = voice_requests[i]
        /\ (SubmitAttempt(i) /\ Status(i) \notin {"pending", "recording"}) =>
             /\ SubmitRejected(i) /\ response'.code = 400
             /\ voice_requests'[i] = voice_requests[i]

C1_TransitionTable == [][TransitionStep]_vars

(* A claim was just rejected with 400 on a request that is past recording. *)
C1_Witness ==
    \E i \in DOMAIN voice_requests :
        /\ response = Rejection("claim-request", i, 400)
        /\ Status(i) \in {"processing", "completed"}

(* C2: at most one handler at a time is between connecting to the          *)
(* speech-to-text backend and leaving the read loop.                       *)
C2_OneTranscription ==
    Cardinality({t \in Tasks : handler[t].pc \in InBackendSection}) <= 1

(* One handler talks to the backend while another one waits for the lock. *)
C2_Witness ==
    \E t, u \in Tasks :
        /\ handler[t].pc = "read"
        /\ handler[u].pc = WaitLock

(* C3: transcript and error are never both set; while pending or recording *)
(* both are unset; a set transcript means completed, a set error means     *)
(* error.                                                                  *)
C3_TranscriptErrorExclusive ==
    \A i \in DOMAIN voice_requests :
        LET r == voice_requests[i]
        IN  /\ ~(r.transcript # None /\ r.error # None)
            /\ r.status \in {"pending", "recording"} =>
                 (r.transcript = None /\ r.error = None)
            /\ r.transcript # None => r.status = "completed"
            /\ r.error # None => r.status = "error"

(* One request has its transcript while another is still pending. *)
C3_Witness ==
    \E i, j \in DOMAIN voice_requests :
        /\ voice_requests[i].transcript # None
        /\ voice_requests[i].error = None
        /\ Status(j) = "pending"

(* C4: a submit whose transcription met a transport or stream failure ends *)
(* with the request in status error, the message recorded.                 *)
C4_FailureRecorded ==
    \A i \in DOMAIN voice_requests :
        (SubmitJustEnded(i) /\ printed.line \in
            {"Error in transcribe_audio", "Error reading events"}) =>
           /\ voice_requests[i].status = "error"
           /\ voice_requests[i].error # None

(* C5: a submit whose transcription gave no text because a budget elapsed  *)
(* or nothing was recognised raises nothing and ends with the request      *)
(* completed, transcript "" and error unset.                               *)
NoTextExit ==
    \/ printed.line \in {"Overall timeout", "Timeout waiting for transcript"}
    \/ printed.line = "Got transcript" /\ Blank(printed.text)

C5_EmptyTranscript ==
    \A i \in DOMAIN voice_requests :
        (SubmitJustEnded(i) /\ NoTextExit) =>
           /\ response.code = 200
           /\ voice_requests[i].status = "completed"
           /\ voice_requests[i].transcript = Some(<< >>)
           /\ voice_requests[i].error = None

(* A submit just ended on the overall deadline with an empty transcript. *)
C5_Witness ==
    \E i \in DOMAIN voice_requests :
        /\ response = Reply("submit", i, 200, "completed", Some(<< >>), None, {})
        /\ printed.line = "Overall timeout"
        /\ voice_requests[i].transcript = Some(<< >>)

(* C6: the lock is owned only by a handler that is inside the backend      *)
(* section, a connection is open only in the hands of the owner, and the   *)
(* queue holds exactly the handlers that are waiting: a handler that left  *)
(* transcribe_audio on any path owns nothing and is queued nowhere.        *)
InQueue(t) == \E k \in 1..Len(whisper_waiters) : whisper_waiters[k] = t

C6_ReleaseOnExit ==
    /\ whisper_lock # NoTask => handler[whisper_lock].pc \in InBackendSection
    /\ \A t \in Tasks :
         /\ handler[t].pc \in InBackendSection => whisper_lock = t
         /\ handler[t].connected => handler[t].pc \in {"send", "read"}
         /\ InQueue(t) <=> handler[t].pc = WaitLock

(* A handler just gave up waiting for the lock that another one holds. *)
C6_Witness ==
    /\ printed.line = "Overall timeout"
    /\ whisper_lock # NoTask
    /\ handler[whisper_lock].connected
    /\ whisper_waiters = << >>
    /\ \E t \in Tasks : t # whisper_lock /\ handler[t].pc = "idle"

(* C7: every invocation of transcribe_audio returns. *)
C7_TranscribeReturns ==
    \A t \in Tasks : (handler[t].pc \in InTranscribe) ~> (handler[t].pc = "idle")

(* A handler waits for the lock while the owner waits for the backend. *)
C7_Witness ==
    \E t, u \in Tasks :
        /\ handler[t].pc = WaitLock
        /\ whisper_lock = u
        /\ handler[u].pc = "connect"

(* C8: submits for different ids transcribe one after the other, and each  *)
(* request taken to processing reaches completed.                          *)
SubmitsSerial ==
    \A t, u \in Tasks :
        (/\ t # u
         /\ handler[t].endpoint = "submit" /\ handler[u].endpoint = "submit"
         /\ handler[t].request_id # handler[u].request_id)
        => ~(handler[t].pc \in InBackendSection /\ handler[u].pc \in InBackendSection)

C9_ClaimOnce ==
    [][\A i \in DOMAIN voice_requests :
          /\ ClaimAttempt(i) =>
               IF Status(i) = "pending"
               THEN response'.code = 200 /\ voice_requests'[i].status = "recording"
               ELSE response'.code = 400 /\ voice_requests' = voice_requests
          /\ Status(i) # "pending" => voice_requests'[i].status # "pending"]_vars

(* A second claim was just rejected and the request is still recording. *)
C9_Witness ==
    \E i \in DOMAIN voice_requests :
        /\ response = Rejection("claim-request", i, 400)
        /\ Status(i) = "recording"

(* C10: claim, submit and get with an id that was never handed out answer  *)
(* 404, create or change no request and start no handler.                  *)
C10_UnknownId ==
    [][\A i \in RequestIds \ DOMAIN voice_requests :
          (ClaimAttempt(i) \/ SubmitAttempt(i) \/ GetAttempt(i)) =>
             /\ response'.code = 404
             /\ voice_requests' = voice_requests
             /\ handler' = handler
             /\ whisper_lock' = whisper_lock
             /\ whisper_waiters' = whisper_waiters]_vars

(* A submit for an unknown id was just answered 404 next to a known request. *)
C10_Witness ==
    \E i \in RequestIds \ DOMAIN voice_requests :
        /\ response = Rejection("submit", i, 404)
        /\ DOMAIN voice_requests # {}

(* C11: a get of a request that nobody has claimed or submitted yet (it is *)
(* still pending) answers 200 with status pending, transcript and error    *)
(* null, whatever happened to other requests.                              *)
C11_GetPending ==
    \A i \in DOMAIN voice_requests :
        (response.op = "result" /\ response.request_id = i /\ Status(i) = "pending")
          => response = Reply("result", i, 200, "pending", None, None, {})

(* A pending request was just read while another one is already completed. *)
C11_Witness ==
    \E i, j \in DOMAIN voice_requests :
        /\ response.op = "result" /\ response.request_id = i
        /\ Status(i) = "pending"
        /\ Status(j) = "completed"

(* C12: the list returned by get_pending_requests holds an entry for a     *)
(* request exactly when that request is pending, with its language, and    *)
(* nothing else.                                                           *)
C12_ListPending ==
    response.op = "pending-requests" =>
        /\ \A i \in DOMAIN voice_requests :
             Status(i) = "pending" <=>
               [id |-> i, language |-> voice_requests[i].language] \in response.requests
        /\ \A e \in response.requests :
             /\ e.id \in DOMAIN voice_requests
             /\ e.language = voice_requests[e.id].language

(* The list was just returned with one entry while another request has     *)
(* left pending.                                                           *)
C12_Witness ==
    /\ response.op = "pending-requests"
    /\ Cardinality(response.requests) = 1
    /\ \E j \in DOMAIN voice_requests : Status(j) \in {"recording", "completed"}

(* C13: no step changes the language of a request, and the language a      *)
(* submit handler carries into transcribe_audio is the stored one.         *)
SubmitCarriesLanguage ==
    \A t \in Tasks :
        handler[t].endpoint = "submit" =>
            handler[t].language = voice_requests[handler[t].request_id].language

C13_LanguageKept ==
    /\ []SubmitCarriesLanguage
    /\ [][\A i \in DOMAIN voice_requests :
            voice_requests'[i].language = voice_requests[i].language]_vars

(* A submit handler transcribes a request created with the non-default     *)
(* language.                                                               *)
C13_Witness ==
    \E t \in Tasks :
        /\ handler[t].endpoint = "submit"
        /\ handler[t].pc = "read"
        /\ handler[t].language = "en"

(* text is `full` without its leading and trailing whitespace. *)
IsTrimOf(text, full) ==
    /\ text = << >> \/ (text[1] # " " /\ text[Len(text)] # " ")
    /\ \E i \in 0..Len(full) :
         /\ i + Len(text) <= Len(full)
         /\ \A k \in 1..Len(full) :
              IF k > i /\ k <= i + Len(text) THEN full[k] = text[k - i]
                                             ELSE full[k] = " "

(* C14: the read loop reads at most 101 events: it goes on only below the  *)
(* ceiling (at most 100 events read so far), and it is left by the step    *)
(* that reads a transcript event, that hits the ceiling or whose read      *)
(* budget elapses.  The text returned is the trimmed text of the           *)
(* transcript event when one was read, and empty on every other exit.      *)
C14_ReadLoop ==
    /\ handler[ReadTask].event_count <= EventCeiling
    /\ printed.events <= EventCeiling + 1
    /\ printed.line = "Too many events" => printed.events = EventCeiling + 1
    /\ printed.line \in {"Got transcript", "Too many events",
                         "Timeout waiting for transcript"}
         => handler[ReadTask].pc = "idle"
    /\ response.op = "test-transcribe" =>
         /\ response.code = 200
         /\ response.transcript # None
         /\ printed.line = "Got transcript"
              => IsTrimOf(response.transcript[1], printed.text)
         /\ printed.line # "Got transcript"
              => response.transcript = Some(<< >>)

(* The loop was left at the ceiling, on the 101st event. *)
C14_Witness ==
    /\ printed.line = "Too many events"
    /\ printed.events = EventCeiling + 1
    /\ response.transcript = Some(<< >>)

(* C15: get_voice_input returns the transcript whenever the request was    *)
(* completed before the timeout had elapsed since polling started; it      *)
(* raises TimeoutError only otherwise.                                     *)
C15_CompletedInTimeReturned ==
    poller.outcome.kind = "TimeoutError" =>
        ~ /\ remote.status = "completed"
          /\ remote.completed_at - poller.start_time < poller.timeout

(* C16: the poller stops polling once it has seen the request in a         *)
(* terminal status, completed or error: no further fetch is sent for it.   *)
C16_StopsAtTerminal ==
    poller.pc = "fetch" => poller.seen \notin {"completed", "error"}

(* C17: a failed POST or GET ends get_voice_input at once with that        *)
(* failure: the call is over (no fetch is outstanding or will follow), and *)
(* its outcome is the transport error, neither TimeoutError nor a          *)
(* transcript; a failed POST has created no request.                       *)
C17_TransportErrorAborts ==
    poller.exchange \notin {"none", "ok"} =>
        /\ poller.pc = "done"
        /\ poller.outcome = [kind |-> poller.exchange, text |-> << >>]
        /\ poller.creates = 0 => remote = NoRemote

(* A fetch failed although the request was completed in time. *)
C17_Witness ==
    /\ poller.exchange = "HTTPStatusError"
    /\ poller.creates = 1
    /\ remote.status = "completed"
    /\ clock - poller.start_time <= poller.timeout

(* C18: call_tool never raises and returns exactly one text item: the      *)
(* transcript message on success, the timed-out message on TimeoutError,   *)
(* the error message with the failure text on any other failure, and       *)
(* "Unknown tool" for another tool name.                                   *)
ToolResultShape ==
    tool_result.returned =>
        /\ ~tool_result.raised
        /\ Len(tool_result.content) = 1
        /\ tool_result.content[1].type = "text"
        /\ tool_result.name # "get_voice_input" =>
             tool_result.content[1] = TextContent("Unknown tool", None, tool_result.name)
        /\ tool_result.name = "get_voice_input" =>
             /\ poller.pc = "done"
             /\ poller.outcome.kind = "transcript" =>
                  tool_result.content[1] =
                      TextContent("Voice input received", Some(poller.outcome.text), "")
             /\ poller.outcome.kind = "TimeoutError" =>
                  tool_result.content[1] = TextContent("Voice input timed out", None, "")
             /\ poller.outcome.kind \notin {"transcript", "TimeoutError"} =>
                  tool_result.content[1] =
                      TextContent("Error getting voice input", None, poller.outcome.kind)

(* A call of another tool touches neither the poller nor any request. *)
UnknownToolStep ==
    (tool_result' # tool_result /\ tool_result'.name \notin {"", "get_voice_input"})
        => UNCHANGED <<poller, remote>>

C18_CallToolReturns == []ToolResultShape /\ [][UnknownToolStep]_vars

(* call_tool returned the error message for a failed fetch. *)
C18_Witness ==
    /\ tool_result.returned
    /\ tool_result.name = "get_voice_input"
    /\ poller.creates = 1
    /\ tool_result.content[1].message = "Error getting voice input"

(* The history that n successful sends should have produced. *)
TurnsOf(done) ==
    [k \in 1..(2 * Len(done)) |->
        IF k % 2 = 1 THEN Turn("user", done[(k + 1) \div 2].prompt)
                     ELSE Turn("assistant", done[k \div 2].reply)]

(* C19: the history of a session that started empty is the alternation    *)
(* user, assistant of the prompts and replies of its successful sends, in  *)
(* order: 2n turns after n of them.                                        *)
C19_HistoryIsExchanges == conversation_history = TurnsOf(exchanges)

(* C20: send_message never raises; it always returns a string. *)
C20_SendReturns == ~sent.raised /\ (sent.prompt # "" => sent.returned # None)

(* C21: send_message uses the one-shot invocation exactly when the         *)
(* interactive channel failed: it could not be started, the exchange       *)
(* raised, or the stream ended before the delimiter.                       *)
InteractiveFailed ==
    sent.interactive \in {"not started", "eof", "BrokenPipeError"}

C21_FallbackExactlyOnFailure ==
    sent.op = "send" => (sent.oneshot # "unused" <=> InteractiveFailed)

(* C22: a session has at most one live subprocess, the last one it         *)
(* started; a subprocess is started only by a send that finds none         *)
(* running, never by creating or looking up the session, and a send that   *)
(* finds one running keeps it.                                             *)
OneLiveSubprocess ==
    /\ Cardinality(live) <= 1
    /\ live \subseteq {children}
    /\ process = "running" <=> children \in live
    /\ process = "none" => live = {}

StartedOnlyWhenNeeded ==
    children' # children =>
        /\ sent'.op = "send"
        /\ process # "running"
        /\ children' = children + 1
        /\ live' = {children'}

C22_LazySingleSubprocess == []OneLiveSubprocess /\ [][StartedOnlyWhenNeeded]_vars

(* The second subprocess of a session runs, after the first one exited,    *)
(* and a later send has reused it.                                         *)
C22_Witness ==
    /\ children = 2
    /\ live = {2}
    /\ sent.op = "send"
    /\ Len(exchanges) >= 2

(* C23: when close() is over, the subprocess of the session is not         *)
(* running, and close() has returned.                                      *)
C23_CloseStops ==
    sent.op = "close" => (~sent.raised /\ process # "running" /\ live = {})

(* C24: after a send that returned a reply, after a clear that returned,   *)
(* and in a session object just re-created, the history file holds exactly *)
(* the turns of the in-memory history.                                     *)
C24_PersistedIsMemory ==
    (\/ sent.op = "send" /\ sent.variant # "none"
     \/ sent.op = "clear" /\ ~sent.raised
     \/ sent.op = "load")
        => Load(history_file) = conversation_history

(* A re-created session has loaded the turns of two exchanges. *)
C24_Witness ==
    /\ sent.op = "load"
    /\ Len(conversation_history) = 4
    /\ Len(exchanges) = 2

(* Frame bytes expected from the events delivered: the payloads of the     *)
(* audio-chunk events before the first audio-stop or end of stream.        *)
RECURSIVE ExpectedFrames(_)
ExpectedFrames(stream) ==
    IF stream = << >> THEN << >>
    ELSE IF Head(stream).type \in {"audio-stop", "eof"} THEN << >>
    ELSE IF Head(stream).type = "audio-chunk"
         THEN Head(stream).audio \o ExpectedFrames(Tail(stream))
         ELSE ExpectedFrames(Tail(stream))

(* C25: a synthesize call that completes leaves audio of 1 channel, 2-byte *)
(* samples, 22050 Hz, whose frames are the chunk payloads received before  *)
(* the first audio-stop or end of stream, in order; nothing is read after  *)
(* that event.                                                             *)
C25_SynthesizedAudio ==
    /\ \A k \in 1..(Len(synth.stream) - 1) :
           synth.stream[k].type \notin {"audio-stop", "eof"}
    /\ (synth.pc = "done" /\ ~synth.raised) =>
           synth.wav = Some([nchannels |-> 1, sampwidth |-> 2, framerate |-> 22050,
                             frames |-> ExpectedFrames(synth.stream)])

(* C26: every call returns, even when the backend never sends its          *)
(* terminal event: a synthesize call that is reading ends.                 *)
C26_SynthesizeReturns == (synth.pc = "read") ~> (synth.pc = "done")

(* C27: a poller that gives up leaves its request as it is: the step that  *)
(* raises TimeoutError changes nothing of the request, and afterwards a    *)
(* request not yet submitted can still be submitted and one in processing  *)
(* can still be completed.                                                 *)
GaveUp == poller.pc = "done" /\ poller.outcome.kind = "TimeoutError"

GiveUpStep == (~GaveUp /\ GaveUp') => remote' = remote

ServerGoesOn ==
    GaveUp =>
        /\ remote.status \in {"pending", "recording"} => ENABLED remote_submit
        /\ remote.status = "processing" =>
             ENABLED (\E text \in Texts : remote_store(TRUE, text))

C27_GiveUpLeavesRequest == []ServerGoesOn /\ [][GiveUpStep]_vars

(* The request was submitted and completed after its poller had given up. *)
C27_Witness ==
    /\ GaveUp
    /\ remote.status = "completed"
    /\ remote.completed_at > poller.start_time + poller.timeout

(* C28: completed and error are terminal: no step changes or removes a     *)
(* request that is completed or in error, and a get on it answers with     *)
(* exactly what is stored.                                                 *)
TerminalKept ==
    \A i \in DOMAIN voice_requests :
        Status(i) \in {"completed", "error"} =>
            /\ i \in DOMAIN voice_requests'
            /\ voice_requests'[i] = voice_requests[i]

GetShowsStored ==
    \A i \in DOMAIN voice_requests :
        (response.op = "result" /\ response.request_id = i) =>
            /\ response.code = 200
            /\ response.status = Status(i)
            /\ response.transcript = voice_requests[i].transcript
            /\ response.error = voice_requests[i].error

C28_TerminalStates == []GetShowsStored /\ [][TerminalKept]_vars

(* A submit on a completed request was just rejected, while a second       *)
(* handler is transcribing for another request.                            *)
C28_Witness ==
    \E i \in DOMAIN voice_requests :
        /\ Status(i) = "completed"
        /\ response = Rejection("submit", i, 400)
        /\ \E t \in Tasks : handler[t].pc = "read"

(* The history _fallback_message was called on: the history now, less the  *)
(* exchange the call itself appended.                                      *)
HistoryAtCall ==
    IF sent.oneshot = "reply"
    THEN SubSeq(conversation_history, 1, Len(conversation_history) - 2)
    ELSE conversation_history

(* C29: the prompt built by the one-shot invocation holds at most the last *)
(* 6 turns of the history, in their order, each with its role label, then  *)
(* the current prompt labelled User; with an empty history it is the bare  *)
(* prompt; no older turn is in it.                                         *)
C29_BoundedContext ==
    sent.op = "fallback" =>
        LET h == HistoryAtCall
            n == IF Len(h) < 6 THEN Len(h) ELSE 6
            full_prompt == sent.full_prompt
        IN  IF h = << >>
            THEN full_prompt = <<Line("", sent.prompt)>>
            ELSE /\ Len(full_prompt) = n + 1
                 /\ full_prompt[n + 1] = Line("User", sent.prompt)
                 /\ \A k \in 1..n :
                      full_prompt[k] =
                          Line(IF h[Len(h) - n + k].role = "user" THEN "User"
                               ELSE "Assistant",
                               h[Len(h) - n + k].content)

(* A prompt built on a history of 8 turns whose first exchange differs     *)
(* from the first exchange of its last 6 turns.                            *)
C29_Witness ==
    /\ sent.op = "fallback"
    /\ Len(HistoryAtCall) = 8
    /\ Len(sent.full_prompt) = 7
    /\ HistoryAtCall[1].content # HistoryAtCall[3].content

(* transcribe_audio returned the empty text with no fault on the way: the  *)
(* backend sent a transcript whose text is blank.                          *)
EmptyTranscript ==
    printed.line = "Got transcript" /\ Strip(printed.text) = << >>

(* C30: in the /voice-text pipeline an empty transcript is answered with   *)
(* 400 "No speech detected", not with the 500 of a system fault.           *)
C30_NoSpeechIs400 ==
    (response.op = "voice-text" /\ EmptyTranscript) =>
        (response.code = 400 /\ response.error = Some("No speech detected"))

(* A handler is between the move to processing (or the start of a          *)
(* transcription) and the end of transcribe_audio.                         *)
Transcribing(t) == handler[t].pc \in {"save"} \cup InTranscribe

(* Every registry operation can be carried out now. *)
RegistryOpen ==
    /\ ENABLED get_pending_requests
    /\ \A id \in RequestIds : ENABLED claim_request(id)
    /\ \A id \in RequestIds : ENABLED get_voice_result(id)
    /\ FreshIds # {} => \A language \in Languages : ENABLED request_voice_input(language)

(* C31: the registry mutex is not held while a handler saves the audio,    *)
(* waits for or holds the transcription lock: create, claim, get and       *)
(* listPending on any id can be carried out during a transcription, and no *)
(* handler that holds one of the two locks waits for the other.            *)
C31_RegistryMutexNotHeld ==
    /\ \A t \in Tasks : Transcribing(t) =>
           (voice_requests_lock = NoTask /\ RegistryOpen)
    /\ \A t \in Tasks :
           (handler[t].pc = WaitLock \/ whisper_lock = t) => voice_requests_lock # t

(* A claim is answered while one handler reads events of the backend and   *)
(* another waits for the transcription lock.                               *)
C31_Witness ==
    /\ \E t, u \in Tasks :
          /\ handler[t].pc = "read" /\ whisper_lock = t
          /\ handler[t].endpoint = "submit"
          /\ handler[u].pc = WaitLock
    /\ response.op = "claim-request"
    /\ response.code = 200

(* Handler t works on the audio of request i. *)
SubmitHandler(t, i) ==
    handler[t].endpoint = "submit" /\ handler[t].request_id = i

(* The step answers a submit call for request i at its status check. *)
SubmitCallAnswered(i) ==
    /\ response'.op = "submit" /\ response'.request_id = i
    /\ \A t \in Tasks : ~SubmitHandler(t, i)

(* A submit call passes only on a request that no submit call has passed   *)
(* on before, and moves it to processing for good; any other submit call   *)
(* for a known id is rejected with 400.                                    *)
OneSubmitPasses ==
    \A i \in DOMAIN voice_requests :
        /\ SubmitAccepted(i) =>
              (Status(i) \in {"pending", "recording"} /\ Status(i)' = "processing")
        /\ Status(i) \notin {"pending", "recording"} =>
              /\ Status(i)' \notin {"pending", "recording"}
              /\ ~SubmitAccepted(i)
              /\ SubmitCallAnswered(i) => response'.code = 400

(* The audio file of a request has at most one handler, and only while the *)
(* request is being processed.                                             *)
OneHandlerPerRequest ==
    \A t, u \in Tasks : \A i \in RequestIds :
        (SubmitHandler(t, i) /\ SubmitHandler(u, i)) =>
            (t = u /\ i \in DOMAIN voice_requests /\ Status(i) = "processing")

(* C32: for each request id at most one transcription is ever started:     *)
(* exactly one submit call passes the status check and moves the request   *)
(* to processing, every other one is rejected with 400, so the audio file  *)
(* of a request never has two handlers.                                    *)
C32_OneTranscriptionPerRequest ==
    []OneHandlerPerRequest /\ [][OneSubmitPasses]_vars

(* A second submit call for a request is rejected while the first one's    *)
(* handler is transcribing.                                                *)
C32_Witness ==
    \E i \in DOMAIN voice_requests :
        /\ Status(i) = "processing"
        /\ response = Rejection("submit", i, 400)
        /\ \E t \in Tasks : SubmitHandler(t, i) /\ handler[t].pc \in InTranscribe

(* C33: every request that enters processing reaches completed or error,   *)
(* also when the submit handler fails between the move to processing and   *)
(* the storing of the result.                                              *)
C33_ProcessingEnds ==
    \A i \in RequestIds :
        (i \in DOMAIN voice_requests /\ Status(i) = "processing")
          ~> (i \in DOMAIN voice_requests /\ Status(i) \in {"completed", "error"})

(* C34: the reply returned for the k-th prompt consists only of lines the  *)
(* subprocess wrote in answer to the k-th prompt, none of them a           *)
(* delimiter line.                                                         *)
C34_ReplyOfItsTurn ==
    \A j \in 1..Len(channel.response_lines) :
        /\ channel.response_lines[j].turn = channel.turn
        /\ ~IsDelimiter(channel.response_lines[j].text)

(* The step is a call of send_message. *)
SendStep == sent'.op = "send" /\ sent' # sent

(* C35: a call of send_message appends nothing to the history, or exactly  *)
(* one user turn with its prompt followed by one assistant turn; it        *)
(* appends nothing exactly when it returns no reply.                       *)
SendAppendsOneExchange ==
    SendStep =>
        IF sent'.variant = "none"
        THEN conversation_history' = conversation_history
        ELSE conversation_history' =
                 Recorded(conversation_history, sent'.prompt, sent'.returned[1])

C35_SendAppendsOnce == [][SendAppendsOneExchange]_vars

====
